---- MODULE Spec2Model ----
(***************************************************************************)
(* Model of babel-plugin-mockable-imports.                                 *)
(*                                                                         *)
(* Part 1: the runtime registry, class ImportMap of src/helpers.js         *)
(* (lines 15-138): the constructor, $add, $mock (object form and function  *)
(* form) and $restore, with JavaScript's property semantics kept: own      *)
(* properties of the instance shadow the prototype's methods, and the      *)
(* metadata map is itself the own property "$meta".                        *)
(***************************************************************************)
EXTENDS Integers, Sequences, FiniteSets, TLC

(***************************************************************************)
(* Bounds of the model.                                                    *)
(***************************************************************************)
\* Largest number of keys of the imports object passed to the constructor.
MaxInit == 1
\* Largest number of aliases the metadata map holds.
MaxAliases == 2
\* Largest number of symbol keys of one replacement description.
MaxKeys == 2
\* Largest number of path keys of one $mock argument.
MaxPaths == 2

(***************************************************************************)
(* Values.  Every JavaScript value of the model is a record with the same  *)
(* three fields: an atom (a primitive or a function, named by a string),   *)
(* or an object literal given by its keys in insertion order, each with an *)
(* atom as its value.  MapRef is the reference to the imports object the   *)
(* constructor received.                                                   *)
(***************************************************************************)
Atom(x) == [k |-> "atom", a |-> x, d |-> <<>>]
Obj(pairs) == [k |-> "obj", a |-> "", d |-> pairs]
MapRef == [k |-> "map", a |-> "", d |-> <<>>]

\* Originating paths and exported symbols ("*" is a namespace import, "<CJS>"
\* a whole-module require).
Sources == {"p", "q"}
Symbols == {"default", "s", "*", "<CJS>"}
\* The value a module exports under a symbol: a primitive, such as the 42 of
\* the tests, that differs from export to export.
ExportOf(source, symbol) == Atom("export:" \o source \o ":" \o symbol)
\* Mock values that are not functions, and mock values that are functions.
MockAtoms == {"m1", "m2"}
FunctionAtoms == {"f1"}
\* What a selector function returns to skip an import.
Null == "null"

\* Names an import can be bound to: ordinary identifiers, names of methods of
\* the class, and the name of the instance's metadata property.
OrdinaryAliases == {"a", "b"}
MethodAliases == {"$mock", "$restore", "$add"}
MetaAlias == "$meta"

Range(seq) == {seq[i] : i \in DOMAIN seq}

NoError == <<>>
TypeError == <<"TypeError">>

(***************************************************************************)
(* isSpecialMethod: ImportMap.prototype.hasOwnProperty(name).  The own     *)
(* properties of the prototype are the constructor and the three methods.  *)
(***************************************************************************)
PrototypeProperties == {"constructor", "$add", "$mock", "$restore"}

isSpecialMethod(name) == name \in PrototypeProperties

(***************************************************************************)
(* The instance.  meta is the content of the imports object (its keys in   *)
(* insertion order, the order of Object.keys), props the own properties of *)
(* the instance, "$meta" among them.                                       *)
(***************************************************************************)
VARIABLES meta, props, call

vars == <<meta, props, call>>

\* The state of one run of the rewriter over one module (part 2, below);
\* `rewriter` names them all. While the registry runs, no rewriter does.
VARIABLES program, opts, body, queue, phase, aborted, importIdentifiers,
          hasCommonJSExportAssignment, renamed

rewriter == <<program, opts, body, queue, phase, aborted, importIdentifiers,
              hasCommonJSExportAssignment, renamed>>

NoRewriter ==
    /\ program = <<>> /\ opts = <<>> /\ body = <<>> /\ queue = <<>>
    /\ phase = "off" /\ aborted = FALSE /\ importIdentifiers = <<>>
    /\ hasCommonJSExportAssignment = FALSE /\ renamed = {}

\* this[name] = value
SetProp(p, name, value) ==
    [n \in (DOMAIN p) \cup {name} |-> IF n = name THEN value ELSE p[n]]

\* Mutant of SetProps: only the first alias of the list is assigned.
SetPropsFirstOnly(p, names, value) ==
    IF names = <<>> THEN p
    ELSE [n \in (DOMAIN p) \cup {names[1]} |->
             IF n = names[1] THEN value ELSE p[n]]

\* this[alias] = value for every alias of a list (a forEach over the list).
SetProps(p, names, value) ==
    [n \in (DOMAIN p) \cup Range(names) |->
        IF n \in Range(names) THEN value ELSE p[n]]

\* The entries this.$meta holds: those of the imports object while "$meta"
\* refers to it, none once "$meta" holds a primitive (Object.keys of a
\* number is empty, and reading a property of it gives undefined).
MetaOf(m, p) == IF p[MetaAlias] = MapRef THEN m ELSE <<>>

\* Object.keys(this.$meta)
MetaKeys(m, p) == [i \in DOMAIN MetaOf(m, p) |-> MetaOf(m, p)[i].alias]

HasEntry(m, p, alias) == \E i \in DOMAIN MetaOf(m, p) : MetaOf(m, p)[i].alias = alias

EntryOf(m, p, alias) ==
    LET mm == MetaOf(m, p)
    IN mm[CHOOSE i \in DOMAIN mm : mm[i].alias = alias]

\* this.$meta[alias] = [source, symbol, value] on the imports object: an
\* existing key keeps its place, a new key goes last.
PutEntry(m, e) ==
    IF \E i \in DOMAIN m : m[i].alias = e.alias
    THEN [i \in DOMAIN m |-> IF m[i].alias = e.alias THEN e ELSE m[i]]
    ELSE Append(m, e)

\* A method is reached through the instance only while no own property of
\* the same name shadows the prototype's.
Callable(p, method) == method \notin DOMAIN p

(***************************************************************************)
(* $restore(): helpers.js 128-137.  The keys are read once; each entry is  *)
(* read from this.$meta as it then is, and destructuring a missing entry   *)
(* (undefined) throws a TypeError.  The argument is not a parameter of the *)
(* method.                                                                 *)
(***************************************************************************)
\* Mutant of RestoreKeys: the method returns at the first alias that is the
\* name of a method, instead of skipping that alias.
RECURSIVE RestoreKeysStopAtSpecial(_, _, _, _)
RestoreKeysStopAtSpecial(m, p, keys, i) ==
    IF i > Len(keys) THEN [props |-> p, err |-> NoError]
    ELSE IF isSpecialMethod(keys[i]) THEN [props |-> p, err |-> NoError]
    ELSE IF ~HasEntry(m, p, keys[i]) THEN [props |-> p, err |-> TypeError]
    ELSE RestoreKeysStopAtSpecial(
             m, SetProp(p, keys[i], EntryOf(m, p, keys[i]).value), keys, i + 1)

\* Mutant of RestoreKeys: the entry is destructured one place off, and the
\* property is set to the symbol instead of the value.
RECURSIVE RestoreKeysWrongIndex(_, _, _, _)
RestoreKeysWrongIndex(m, p, keys, i) ==
    IF i > Len(keys) THEN [props |-> p, err |-> NoError]
    ELSE IF isSpecialMethod(keys[i]) THEN RestoreKeysWrongIndex(m, p, keys, i + 1)
    ELSE IF ~HasEntry(m, p, keys[i]) THEN [props |-> p, err |-> TypeError]
    ELSE RestoreKeysWrongIndex(
             m, SetProp(p, keys[i], Atom(EntryOf(m, p, keys[i]).symbol)),
             keys, i + 1)

RECURSIVE RestoreKeys(_, _, _, _)
RestoreKeys(m, p, keys, i) ==
    IF i > Len(keys) THEN [props |-> p, err |-> NoError]
    ELSE IF isSpecialMethod(keys[i]) THEN RestoreKeys(m, p, keys, i + 1)
    ELSE IF ~HasEntry(m, p, keys[i]) THEN [props |-> p, err |-> TypeError]
    ELSE RestoreKeys(m, SetProp(p, keys[i], EntryOf(m, p, keys[i]).value),
                     keys, i + 1)

restore(m, p) == RestoreKeys(m, p, MetaKeys(m, p), 1)

(***************************************************************************)
(* constructor(imports): helpers.js 16-23.                                 *)
(***************************************************************************)
construct(imports) == restore(imports, (MetaAlias :> MapRef))

(***************************************************************************)
(* $add(alias, source, symbol, value): helpers.js 31-37.  Class bodies are *)
(* strict code: creating a property on a primitive throws a TypeError.     *)
(***************************************************************************)
add(m, p, alias, source, symbol, value) ==
    IF isSpecialMethod(alias)
    THEN [meta |-> m, props |-> p, err |-> NoError]
    ELSE IF p[MetaAlias] # MapRef
    THEN [meta |-> m, props |-> p, err |-> TypeError]
    ELSE [meta |-> PutEntry(m, [alias |-> alias, source |-> source,
                                symbol |-> symbol, value |-> value]),
          props |-> SetProp(p, alias, value),
          err |-> NoError]

(***************************************************************************)
(* $mock(imports), object form: helpers.js 73-120.  imports is a list of   *)
(* <<source, description>> in key order; a description is a function atom  *)
(* or an object.                                                           *)
(***************************************************************************)
IsFunction(v) == v.k = "atom" /\ v.a \in FunctionAtoms

\* Object.keys(this.$meta).filter(alias => source_ === source && symbol_ === symbol)
matchingAliases(m, p, source, symbol) ==
    LET hit(e) == e.source = source /\ e.symbol = symbol
        es == SelectSeq(MetaOf(m, p), hit)
    IN [i \in DOMAIN es |-> es[i].alias]

\* helpers.js 100-119: the symbol keys of esImports, in order, from key i on.
\* Mutant of mockSymbols: a symbol key that matches no alias is skipped
\* instead of making the call throw.
RECURSIVE mockSymbolsLenient(_, _, _, _, _, _, _)
mockSymbolsLenient(m, p, source, esImports, nsLen, cjsLen, i) ==
    IF i > Len(esImports.d) THEN [props |-> p, err |-> NoError]
    ELSE mockSymbolsLenient(
             m,
             SetProps(p, matchingAliases(m, p, source, esImports.d[i][1]),
                      Atom(esImports.d[i][2])),
             source, esImports, nsLen, cjsLen, i + 1)

\* Mutant of mockSymbols: the mock is stored under the symbol key itself as
\* well as under the aliases registered for it.
RECURSIVE mockSymbolsUnderSymbol(_, _, _, _, _, _, _)
mockSymbolsUnderSymbol(m, p, source, esImports, nsLen, cjsLen, i) ==
    IF i > Len(esImports.d) THEN [props |-> p, err |-> NoError]
    ELSE LET symbol == esImports.d[i][1]
             aliases == matchingAliases(m, p, source, symbol)
         IN IF Len(aliases) = 0 /\ nsLen = 0 /\ cjsLen = 0
            THEN [props |-> p, err |-> <<"Error", symbol, source>>]
            ELSE mockSymbolsUnderSymbol(
                     m,
                     SetProp(SetProps(p, aliases, Atom(esImports.d[i][2])),
                             symbol, Atom(esImports.d[i][2])),
                     source, esImports, nsLen, cjsLen, i + 1)

RECURSIVE mockSymbols(_, _, _, _, _, _, _)
mockSymbols(m, p, source, esImports, nsLen, cjsLen, i) ==
    IF i > Len(esImports.d) THEN [props |-> p, err |-> NoError]
    ELSE LET symbol == esImports.d[i][1]
             aliases == matchingAliases(m, p, source, symbol)
         IN IF Len(aliases) = 0 /\ nsLen = 0 /\ cjsLen = 0
            THEN [props |-> p, err |-> <<"Error", symbol, source>>]
            ELSE mockSymbols(m, SetProps(p, aliases, Atom(esImports.d[i][2])),
                             source, esImports, nsLen, cjsLen, i + 1)

\* Mutant of esImportsOf: the description is used as given, a function is
\* not turned into {default: function}.
esImportsOfAsIs(sourceImports) == sourceImports

\* helpers.js 76-78: a function is shorthand for { default: thatFunction }.
esImportsOf(sourceImports) ==
    IF IsFunction(sourceImports)
    THEN Obj(<< <<"default", sourceImports.a>> >>)
    ELSE sourceImports

\* Mutant of mockSource: the <CJS> aliases get the normalised description,
\* as the namespace aliases do.
mockSourceNormalisedCJS(m, p, source, sourceImports) ==
    LET esImports == esImportsOf(sourceImports)
        namespaceAliases == matchingAliases(m, p, source, "*")
        p1 == SetProps(p, namespaceAliases, esImports)
        cjsAliases == matchingAliases(m, p1, source, "<CJS>")
        p2 == SetProps(p1, cjsAliases, esImports)
    IN mockSymbols(m, p2, source, esImports,
                   Len(namespaceAliases), Len(cjsAliases), 1)

\* helpers.js 74-119: one path key of the argument.
mockSource(m, p, source, sourceImports) ==
    LET esImports == esImportsOf(sourceImports)
        namespaceAliases == matchingAliases(m, p, source, "*")
        p1 == SetProps(p, namespaceAliases, esImports)
        cjsAliases == matchingAliases(m, p1, source, "<CJS>")
        p2 == SetProps(p1, cjsAliases, sourceImports)
    IN mockSymbols(m, p2, source, esImports,
                   Len(namespaceAliases), Len(cjsAliases), 1)

\* helpers.js 73-120: the path keys in order; a throw ends the call and
\* leaves what was assigned before it.
RECURSIVE mockSources(_, _, _, _)
mockSources(m, p, imports, i) ==
    IF i > Len(imports) THEN [props |-> p, err |-> NoError]
    ELSE LET r == mockSource(m, p, imports[i][1], imports[i][2])
         IN IF r.err # NoError THEN r
            ELSE mockSources(m, r.props, imports, i + 1)

\* Mutant of mockObject: the active mocks are dropped before the overlay is
\* applied, instead of being merged with it.
mockObjectAfterRestore(m, p, imports) ==
    mockSources(m, restore(m, p).props, imports, 1)

\* Mutant of mockObject: a call that throws leaves the properties as they
\* were before it.
mockObjectAtomic(m, p, imports) ==
    LET r == mockSources(m, p, imports, 1)
    IN IF r.err # NoError THEN [props |-> p, err |-> r.err] ELSE r

mockObject(m, p, imports) == mockSources(m, p, imports, 1)

(***************************************************************************)
(* $mock(imports), function form: helpers.js 58-71.  A selector is given   *)
(* by the argument it looks at, the value it compares it with, and what it *)
(* returns on a match and otherwise.                                       *)
(***************************************************************************)
selectorResult(sel, source, symbol, value) ==
    LET arg == CASE sel.field = "source" -> source
                 [] sel.field = "symbol" -> symbol
                 [] OTHER -> value.a
    IN IF arg = sel.match THEN sel.hit ELSE sel.miss

\* mocks[source] = mocks[source] || {}; mocks[source][symbol] = mock;
putMock(mocks, source, symbol, mock) ==
    LET withSource == IF \E i \in DOMAIN mocks : mocks[i][1] = source
                      THEN mocks
                      ELSE Append(mocks, <<source, Obj(<<>>)>>)
        putKey(d) == IF \E j \in DOMAIN d : d[j][1] = symbol
                     THEN [j \in DOMAIN d |->
                             IF d[j][1] = symbol THEN <<symbol, mock>> ELSE d[j]]
                     ELSE Append(d, <<symbol, mock>>)
    IN [i \in DOMAIN withSource |->
          IF withSource[i][1] = source
          THEN <<source, Obj(putKey(withSource[i][2].d))>>
          ELSE withSource[i]]

\* helpers.js 59-67: the selector is called for the aliases in key order.
RECURSIVE expandSelector(_, _, _, _)
expandSelector(entries, sel, mocks, i) ==
    IF i > Len(entries) THEN mocks
    ELSE LET e == entries[i]
             mock == selectorResult(sel, e.source, e.symbol, e.value)
         IN expandSelector(entries, sel,
                           IF mock # Null
                           THEN putMock(mocks, e.source, e.symbol, mock)
                           ELSE mocks,
                           i + 1)

selectorMocks(m, p, sel) == expandSelector(MetaOf(m, p), sel, <<>>, 1)

\* helpers.js 68: this.$mock(mocks).
mockFunction(m, p, sel) == mockObject(m, p, selectorMocks(m, p, sel))

(***************************************************************************)
(* Inputs.                                                                 *)
(***************************************************************************)
SeqsUpTo(S, n) == UNION {[1..k -> S] : k \in 0..n}

DistinctBy(seq, key(_)) ==
    \A i, j \in DOMAIN seq : key(seq[i]) = key(seq[j]) => i = j

\* [source, symbol, value] under an alias: the value is what the module
\* exports under the symbol.
Entry(alias, source, symbol) ==
    [alias |-> alias, source |-> source, symbol |-> symbol,
     value |-> ExportOf(source, symbol)]

Entries(aliases) ==
    {Entry(alias, source, symbol) :
        alias \in aliases, source \in Sources, symbol \in Symbols}

\* Arguments of $add: any import under an ordinary alias, one import under
\* each of the other names.
AddInputs ==
    Entries(OrdinaryAliases) \cup
    {Entry(alias, "p", "default") : alias \in MethodAliases \cup {MetaAlias}}

\* Keys of the object given to the constructor: any import under the first
\* ordinary alias, a default or a namespace import of "p" under the name of
\* a method or of the metadata property.
InitialEntries ==
    Entries({"a"}) \cup
    {Entry(alias, "p", symbol) :
        alias \in {"$mock", "$restore", MetaAlias}, symbol \in {"default", "*"}}

\* Ordinary aliases are interchangeable: "b" is registered only in a
\* registry that has "a".
InOrder(m, alias) ==
    alias = "b" => \E i \in DOMAIN m : m[i].alias = "a"

\* What the constructor is given: at most MaxInit entries.
AliasKey(e) == e.alias

InitialImports ==
    {s \in SeqsUpTo(InitialEntries, MaxInit) : DistinctBy(s, AliasKey)}

First(pair) == pair[1]

LeafOfPosition(i) == IF i = 1 THEN "m1" ELSE "m2"

\* Replacement descriptions: a function (the shorthand), the explicit
\* { default: thatFunction }, or an object of at most MaxKeys distinct symbol
\* keys whose values are not functions: any mock value under a single key,
\* the i-th mock value under the i-th of several keys.
Descriptions ==
    {Atom(f) : f \in FunctionAtoms} \cup
    {Obj(<< <<"default", f>> >>) : f \in FunctionAtoms} \cup
    {Obj(d) : d \in {s \in SeqsUpTo(Symbols \X MockAtoms, MaxKeys) :
                        /\ DistinctBy(s, First)
                        /\ Len(s) > 1 => \A i \in DOMAIN s : s[i][2] = LeafOfPosition(i)}}

\* Arguments of $mock in object form: one path with any description, or
\* several distinct paths (at most MaxPaths) with one symbol key each, the
\* key of the i-th path having the i-th mock value.
Overlays ==
    {s \in SeqsUpTo(Sources \X Descriptions, MaxPaths) :
        /\ DistinctBy(s, First)
        /\ Len(s) > 1 =>
              \A i \in DOMAIN s :
                 /\ s[i][2].k = "obj"
                 /\ Len(s[i][2].d) = 1
                 /\ s[i][2].d[1][2] = LeafOfPosition(i)}

\* Selector functions: one that skips every import, and those that look at
\* one argument, return "m1" on a match and skip or return "m2" otherwise.
NoneSelector == [field |-> "source", match |-> "", hit |-> Null, miss |-> Null]

Selectors ==
    {NoneSelector} \cup
    [field : {"source"}, match : Sources, hit : {"m1"}, miss : {Null, "m2"}] \cup
    [field : {"symbol"}, match : Symbols, hit : {"m1"}, miss : {Null, "m2"}] \cup
    [field : {"value"},
     match : {ExportOf(P, S).a : P \in Sources, S \in Symbols},
     hit : {"m1"}, miss : {Null}]

\* Arguments handed to $restore: none, { P: true } or { P: { s: true } }.
RestoreArgs ==
    {<<>>} \cup
    {<< <<P, Atom("true")>> >> : P \in Sources} \cup
    {<< <<P, Obj(<< <<"s", "true">> >>)>> >> : P \in Sources}

(***************************************************************************)
(* The state machine: an instance is constructed, then its methods are     *)
(* called in any order.  call is the caller's record of the latest call:   *)
(* the method, its arguments, the error it threw if any, and the metadata  *)
(* and properties as they were before it.  Continue is the caller going on *)
(* to its next call.                                                       *)
(***************************************************************************)
Idle == [op |-> "idle", arg |-> <<>>, err |-> NoError,
         meta |-> <<>>, props |-> <<>>]

Called(op, arg, err) ==
    [op |-> op, arg |-> arg, err |-> err, meta |-> meta, props |-> props]

Init ==
    \E imports \in InitialImports :
        LET r == construct(imports)
        IN /\ r.err = NoError
           /\ meta = imports
           /\ props = r.props
           /\ call = [op |-> "new", arg |-> imports, err |-> NoError,
                      meta |-> <<>>, props |-> <<>>]
           /\ NoRewriter

Add(alias, source, symbol, value) ==
    /\ call = Idle
    /\ Callable(props, "$add")
    /\ LET r == add(meta, props, alias, source, symbol, value)
       IN /\ Len(r.meta) <= MaxAliases
          /\ meta' = r.meta
          /\ props' = r.props
          /\ call' = Called("add", <<alias, source, symbol, value>>, r.err)
    /\ UNCHANGED rewriter

MockObject(imports) ==
    /\ call = Idle
    /\ Callable(props, "$mock")
    /\ LET r == mockObject(meta, props, imports)
       IN /\ props' = r.props
          /\ call' = Called("mock", imports, r.err)
    /\ UNCHANGED <<meta, rewriter>>

MockFunction(sel) ==
    /\ call = Idle
    /\ Callable(props, "$mock")
    /\ LET r == mockFunction(meta, props, sel)
       IN /\ props' = r.props
          /\ call' = Called("mockfn", <<sel>>, r.err)
    /\ UNCHANGED <<meta, rewriter>>

Restore(arg) ==
    /\ call = Idle
    /\ Callable(props, "$restore")
    /\ LET r == restore(meta, props)
       IN /\ props' = r.props
          /\ call' = Called("restore", arg, r.err)
    /\ UNCHANGED <<meta, rewriter>>

Continue ==
    /\ call # Idle
    /\ call' = Idle
    /\ UNCHANGED <<meta, props, rewriter>>

Next ==
    \/ \E e \in AddInputs :
          InOrder(meta, e.alias) /\ Add(e.alias, e.source, e.symbol, e.value)
    \/ \E imports \in Overlays : MockObject(imports)
    \/ \E sel \in Selectors : MockFunction(sel)
    \/ \E arg \in RestoreArgs : Restore(arg)
    \/ Continue

Spec == Init /\ [][Next]_<<vars, rewriter>>

(***************************************************************************)
(* Vocabulary of the properties.                                           *)
(***************************************************************************)
\* The metadata entries the instance held before the latest call, and holds
\* now.
EntriesBefore == Range(MetaOf(call.meta, call.props))
EntriesNow == Range(MetaOf(meta, props))

\* The registered aliases: the keys of the metadata map that are not names
\* of methods (helpers.js 130-133 never materialises those).
RegisteredBefore == {e \in EntriesBefore : ~isSpecialMethod(e.alias)}
RegisteredNow == {e \in EntriesNow : ~isSpecialMethod(e.alias)}

\* Reading the property `name` gives `value`.
Reads(p, name, value) == name \in DOMAIN p /\ p[name] = value

\* The property `name` is the same in p and q (absent in both, or equal).
SameProp(p, q, name) ==
    /\ (name \in DOMAIN p) <=> (name \in DOMAIN q)
    /\ name \in DOMAIN p => p[name] = q[name]

\* Some registered alias holds something else than its registered value.
MockActive(entries, p) == \E e \in entries : ~Reads(p, e.alias, e.value)

\* The latest call was $mock in object form / returned normally.
MockCall == call.op = "mock"
Returned == call.err = NoError

\* The latest call was $mock({P: {S: V}}).
SingleMock(P, S, V) == MockCall /\ call.arg = << <<P, Obj(<< <<S, V>> >>)>> >>

\* The symbol keys a description is processed with, and the value of one.
KeysOf(desc) == {esImportsOf(desc).d[j][1] : j \in DOMAIN esImportsOf(desc).d}

ValueOfKey(desc, symbol) ==
    LET d == esImportsOf(desc).d
    IN Atom(d[CHOOSE j \in DOMAIN d : d[j][1] = symbol][2])

\* The paths of a $mock argument, and the description given for one.
PathsOf(imports) == {imports[i][1] : i \in DOMAIN imports}

DescriptionOf(imports, P) ==
    imports[CHOOSE i \in DOMAIN imports : imports[i][1] = P][2]

IsWholeModule(symbol) == symbol \in {"*", "<CJS>"}

(***************************************************************************)
(* C1: after a successful $mock({P: {S: V}}), every alias registered with  *)
(* path P and symbol S reads V: the entry fans out to all of them.         *)
(***************************************************************************)
C1_FanOut ==
    \A P \in Sources, S \in Symbols, V \in MockAtoms \cup FunctionAtoms :
        (SingleMock(P, S, V) /\ Returned) =>
            \A e \in EntriesBefore :
                (e.source = P /\ e.symbol = S) => Reads(props, e.alias, Atom(V))

\* Two aliases share (P, S) and both read V after the call.
C1_Witness ==
    \E P \in Sources, S \in Symbols, V \in MockAtoms :
        /\ SingleMock(P, S, V) /\ Returned
        /\ \E e1, e2 \in EntriesBefore :
              /\ e1.alias # e2.alias
              /\ e1.source = P /\ e2.source = P
              /\ e1.symbol = S /\ e2.symbol = S
              /\ Reads(props, e1.alias, Atom(V))
              /\ Reads(props, e2.alias, Atom(V))

(***************************************************************************)
(* C2: whatever $mock calls came before (object form, function form, calls *)
(* that threw), $restore() with no argument returns and leaves every       *)
(* registered alias reading the value it was registered with.              *)
(***************************************************************************)
C2_RestoreAll ==
    (call.op = "restore" /\ call.arg = <<>>) =>
        /\ Returned
        /\ \A e \in RegisteredNow : Reads(props, e.alias, e.value)

\* $restore() was called while a registered alias held a mock.
C2_Witness ==
    /\ call.op = "restore" /\ call.arg = <<>>
    /\ \E e \in RegisteredNow :
          /\ ~Reads(call.props, e.alias, e.value)
          /\ Reads(props, e.alias, e.value)

Selected(arg, e) ==
    \E i \in DOMAIN arg :
        /\ arg[i][1] = e.source
        /\ \/ arg[i][2] = Atom("true")
           \/ /\ arg[i][2].k = "obj"
              /\ \E j \in DOMAIN arg[i][2].d : arg[i][2].d[j] = <<e.symbol, "true">>

C4_SelectiveRestore ==
    (call.op = "restore" /\ call.arg # <<>>) =>
        \A e \in RegisteredBefore :
            IF Selected(call.arg, e)
            THEN Reads(props, e.alias, e.value)
            ELSE SameProp(props, call.props, e.alias)

(***************************************************************************)
(* Vocabulary of the $mock properties.                                     *)
(***************************************************************************)
\* The overlay the latest $mock call processed: its argument in object
\* form, the overlay generated from the selector in function form
\* (helpers.js 58-71).
Overlay ==
    IF call.op = "mock" THEN call.arg
    ELSE selectorMocks(call.meta, call.props, call.arg[1])

AnyMockCall == call.op \in {"mock", "mockfn"}

\* The overlay has the key (e.source, e.symbol).
Touched(imports, e) ==
    /\ e.source \in PathsOf(imports)
    /\ e.symbol \in KeysOf(DescriptionOf(imports, e.source))

\* No alias was registered with (P, S), and none with the namespace or the
\* whole-module symbol of P, when the call was made.
Unmatched(P, S) ==
    ~\E e \in EntriesBefore : e.source = P /\ e.symbol \in {S, "*", "<CJS>"}

UnmatchedKeys ==
    {ps \in Sources \X Symbols :
        /\ ps[1] \in PathsOf(call.arg)
        /\ ps[2] \in KeysOf(DescriptionOf(call.arg, ps[1]))
        /\ Unmatched(ps[1], ps[2])}

NotImported(P) == ~\E e \in EntriesBefore : e.source = P

(***************************************************************************)
(* C5 (as stated): an object-form $mock with an unmatched symbol key       *)
(* throws an error naming that path and symbol, and a path no alias was    *)
(* imported from always makes the call throw.                              *)
(***************************************************************************)
C5_Original ==
    MockCall =>
        /\ UnmatchedKeys # {} =>
              \E ps \in UnmatchedKeys : call.err = <<"Error", ps[2], ps[1]>>
        /\ \A P \in PathsOf(call.arg) : NotImported(P) => ~Returned

(***************************************************************************)
(* C5 (amended): an object-form $mock with an unmatched symbol key throws  *)
(* an error naming an unmatched path and symbol, whatever else matches; a  *)
(* path no alias was imported from makes the call throw when its           *)
(* description has at least one symbol key.                                *)
(***************************************************************************)
C5_ThrowsOnUnmatched ==
    MockCall =>
        /\ UnmatchedKeys # {} =>
              \E ps \in UnmatchedKeys : call.err = <<"Error", ps[2], ps[1]>>
        /\ \A P \in PathsOf(call.arg) :
              (NotImported(P) /\ KeysOf(DescriptionOf(call.arg, P)) # {})
                  => ~Returned

\* The call threw for an unmatched key although another key of the same
\* overlay matched a registered alias.
C5_Witness ==
    /\ MockCall
    /\ \E ps \in UnmatchedKeys : call.err = <<"Error", ps[2], ps[1]>>
    /\ \E e \in EntriesBefore : Touched(call.arg, e)

(***************************************************************************)
(* C6 (as stated): a $mock call that returns overrides every alias whose   *)
(* (path, symbol) it names, and every alias holding an earlier mock whose  *)
(* (path, symbol) it does not name keeps that mock.                        *)
(***************************************************************************)
C6_Original ==
    (AnyMockCall /\ Returned) =>
        \A e \in RegisteredBefore :
            IF Touched(Overlay, e)
            THEN Reads(props, e.alias,
                       ValueOfKey(DescriptionOf(Overlay, e.source), e.symbol))
            ELSE ~Reads(call.props, e.alias, e.value)
                     => SameProp(props, call.props, e.alias)

(***************************************************************************)
(* C6 (amended): a $mock call that returns overrides every alias whose     *)
(* (path, symbol) it names; every alias whose path it does not name, and   *)
(* every named-symbol alias whose symbol is not a key of the description   *)
(* for its path, keeps the value it had (also when the call throws).       *)
(* Namespace and whole-module aliases of a named path are not kept.        *)
(***************************************************************************)
C6_Compose ==
    AnyMockCall =>
        \A e \in EntriesBefore :
            IF Touched(Overlay, e)
            THEN Returned =>
                     Reads(props, e.alias,
                           ValueOfKey(DescriptionOf(Overlay, e.source), e.symbol))
            ELSE (e.source \in PathsOf(Overlay) /\ IsWholeModule(e.symbol))
                     \/ SameProp(props, call.props, e.alias)

\* A later call replaced the earlier mock of one alias and left the earlier
\* mock of another alias in place.
C6_Witness ==
    /\ AnyMockCall /\ Returned
    /\ \E e1, e2 \in EntriesBefore :
          /\ Touched(Overlay, e1)
          /\ ~Reads(call.props, e1.alias, e1.value)
          /\ ~SameProp(props, call.props, e1.alias)
          /\ ~Touched(Overlay, e2)
          /\ ~Reads(call.props, e2.alias, e2.value)
          /\ SameProp(props, call.props, e2.alias)

(***************************************************************************)
(* Vocabulary of the shorthand.                                            *)
(***************************************************************************)
\* The latest call was $mock({P: f}) for a function f.
ShorthandCall(P, f) == MockCall /\ call.arg = << <<P, Atom(f)>> >>

\* What $mock({P: {default: f}}) gives when called in the state the latest
\* call was made in.
ExplicitResult(P, f) ==
    mockObject(call.meta, call.props, << <<P, Obj(<< <<"default", f>> >>)>> >>)

IsCJSAliasOf(name, P) ==
    \E e \in EntriesBefore :
        e.alias = name /\ e.source = P /\ e.symbol = "<CJS>"

C8_SelectorMock ==
    call.op = "mockfn" =>
        /\ Returned
        /\ \A e \in RegisteredBefore :
              LET r == selectorResult(call.arg[1], e.source, e.symbol, e.value)
              IN IF r = Null
                 THEN SameProp(props, call.props, e.alias)
                 ELSE Reads(props, e.alias, Atom(r))

(***************************************************************************)
(* C9: $add(alias, path, symbol, value) returns; for the name of a method  *)
(* ($mock, $restore, $add) it changes neither the metadata map nor a       *)
(* property; for any other alias the metadata map then holds               *)
(* (path, symbol, value) under alias and the property alias reads value.   *)
(***************************************************************************)
C9_Add ==
    call.op = "add" =>
        LET alias == call.arg[1]
            entry == [alias |-> alias, source |-> call.arg[2],
                      symbol |-> call.arg[3], value |-> call.arg[4]]
        IN /\ Returned
           /\ IF alias \in MethodAliases
              THEN meta = call.meta /\ props = call.props
              ELSE /\ HasEntry(meta, props, alias)
                   /\ EntryOf(meta, props, alias) = entry
                   /\ Reads(props, alias, entry.value)

(***************************************************************************)
(* C10 (as stated): after an object-form $mock that returned, every        *)
(* namespace and <CJS> alias of a path P of the overlay reads the          *)
(* description given for P, whatever its keys, and an alias of P with a    *)
(* named symbol is set only from the key equal to its symbol.              *)
(***************************************************************************)
C10_Original ==
    (MockCall /\ Returned) =>
        \A e \in EntriesBefore :
            e.source \in PathsOf(call.arg) =>
                LET desc == DescriptionOf(call.arg, e.source)
                IN IF IsWholeModule(e.symbol)
                   THEN Reads(props, e.alias, desc)
                   ELSE IF e.symbol \in KeysOf(desc)
                   THEN Reads(props, e.alias, ValueOfKey(desc, e.symbol))
                   ELSE SameProp(props, call.props, e.alias)

(***************************************************************************)
(* C10 (amended): after an object-form $mock that returned, an alias of a  *)
(* path P of the overlay whose symbol is a key of P's description reads    *)
(* that key's value (also when the symbol is "*" or "<CJS>"); otherwise a  *)
(* namespace alias reads the description with a function turned into       *)
(* {default: function}, a <CJS> alias reads the description as given, and  *)
(* an alias with a named symbol keeps the value it had.                    *)
(***************************************************************************)
C10_WholeModule ==
    (MockCall /\ Returned) =>
        \A e \in EntriesBefore :
            e.source \in PathsOf(call.arg) =>
                LET desc == DescriptionOf(call.arg, e.source)
                IN IF e.symbol \in KeysOf(desc)
                   THEN Reads(props, e.alias, ValueOfKey(desc, e.symbol))
                   ELSE IF e.symbol = "*"
                   THEN Reads(props, e.alias, esImportsOf(desc))
                   ELSE IF e.symbol = "<CJS>"
                   THEN Reads(props, e.alias, desc)
                   ELSE SameProp(props, call.props, e.alias)

\* A namespace alias and a <CJS> alias of the same path were given a
\* description that names neither of their symbols, and a function.
C10_Witness ==
    /\ MockCall /\ Returned
    /\ \E e1, e2 \in RegisteredBefore :
          /\ e1.symbol = "*" /\ e2.symbol = "<CJS>"
          /\ e1.source = e2.source
          /\ e1.source \in PathsOf(call.arg)
          /\ LET desc == DescriptionOf(call.arg, e1.source)
             IN /\ Reads(props, e1.alias, esImportsOf(desc))
                /\ Reads(props, e2.alias, desc)
                /\ desc # esImportsOf(desc)

(***************************************************************************)
(* Part 2: the rewriter, the Babel plugin of src/index.js (lines 1-475).   *)
(*                                                                         *)
(* A module is the sequence of its top-level statements. Babel calls the   *)
(* plugin's visitors on them in source order, the statements the plugin    *)
(* inserts included, and calls Program.exit at the end. Another plugin of  *)
(* the same pass may rename a local identifier at any moment.              *)
(*                                                                         *)
(* Identifier names, module paths and file names are sequences of tokens,  *)
(* so that a prefix (startsWith("_"), /^exclude/), an occurrence (/\0/)    *)
(* and a directory segment can be looked at.                               *)
(***************************************************************************)
\* Largest number of top-level statements of an input module.
MaxStatements == 3
\* Largest number of identifiers another plugin renames during the pass.
MaxRenames == 1

Underscored(name) == <<"_">> \o name
startsWith(name, prefix) == Len(name) > 0 /\ name[1] = prefix

dollarImports == <<"$imports">>
foo == <<"foo">>
bar == <<"bar">>
underscoreFoo == Underscored(foo)

aModule == <<"./foo">>
proxyquire == <<"proxyquire">>
rollupHelpers == <<"\\0", "rollupPluginBabelHelpers.js">>
excludeMe == <<"exclude", "-me">>

\* index.js 3.
helperImportPath == <<"babel-plugin-mockable-imports/lib/helpers">>

\* An entry of an exclude list: a string, or a regular expression that looks
\* for a token anywhere (/\0/) or at the start (/^exclude/).
StringPattern(text) == [type |-> "string", kind |-> "equal", text |-> text]
RegExpPattern(kind, token) == [type |-> "RegExp", kind |-> kind, text |-> <<token>>]

\* RegExp.prototype.test for the two kinds of expression.
regExpTest(pattern, s) ==
    IF pattern.kind = "contains"
    THEN \E i \in DOMAIN s : s[i] = pattern.text[1]
    ELSE startsWith(s, pattern.text[1])

\* index.js 8-21 and 30.
EXCLUDE_LIST ==
    << StringPattern(helperImportPath),
       StringPattern(proxyquire),
       RegExpPattern("contains", "\\0") >>

EXCLUDED_DIRS == <<"test", "__tests__">>

\* An option of the plugin: undefined, or a value.
Undefined == [given |-> FALSE, value |-> <<>>]
Given(v) == [given |-> TRUE, value |-> v]

\* An exclusion test for which the option adds to the default list.
excludeImportsFromBoth(path, excludeList) ==
    LET list == EXCLUDE_LIST \o excludeList.value
    IN \E i \in DOMAIN list :
          \/ list[i].type = "string" /\ list[i].text = path
          \/ list[i].type = "RegExp" /\ regExpTest(list[i], path)

\* index.js 114-120; the default parameter stands in for undefined only.
excludeImportsFrom(path, excludeList) ==
    LET list == IF excludeList.given THEN excludeList.value ELSE EXCLUDE_LIST
    IN \E i \in DOMAIN list :
          \/ list[i].type = "string" /\ list[i].text = path
          \/ list[i].type = "RegExp" /\ regExpTest(list[i], path)

\* A split that keeps the file's own name among the directory segments.
dirPartsWithFile(filename) == filename

\* path.dirname(filename).split(path.sep) for a file name given as its
\* segments ("" first for an absolute one): "index.js" is in ".", "/index.js"
\* in "/", which splits into two empty segments.
dirParts(filename) ==
    IF Len(filename) = 1 THEN <<".">>
    ELSE IF Len(filename) = 2 /\ filename[1] = "" THEN <<"", "">>
    ELSE SubSeq(filename, 1, Len(filename) - 1)

\* index.js 125-136.
excludeModule(o) ==
    IF ~o.filename.given THEN FALSE
    ELSE LET excludeList == IF o.excludeDirs.given THEN o.excludeDirs.value
                            ELSE EXCLUDED_DIRS
             parts == dirParts(o.filename.value)
         IN \E i \in DOMAIN parts : parts[i] \in Range(excludeList)

(***************************************************************************)
(* Expressions, as far as parseRequireExpression looks at them.            *)
(***************************************************************************)
\* type: the node type; wrapped: the node is the last expression of a comma
\* sequence; callee, literal, arg: the call (of a call expression, or the
\* object of a member expression, when objectIsCall); propType, prop: the
\* property of a member expression; computed: the access is written with
\* brackets (always so for a literal).
Expr(type, callee, literal, arg, objectIsCall, propType, prop) ==
    [type |-> type, wrapped |-> FALSE, callee |-> callee, literal |-> literal,
     arg |-> arg, objectIsCall |-> objectIsCall, propType |-> propType,
     prop |-> prop, computed |-> FALSE]

NoExpr == Expr("none", "", FALSE, <<>>, FALSE, "none", "")
\* require("path")
Require(path) == Expr("CallExpression", "require", TRUE, path, FALSE, "none", "")
\* require("path").prop and require("path")["prop"]
RequireProperty(path, prop) ==
    Expr("MemberExpression", "require", TRUE, path, TRUE, "Identifier", prop)
RequireLiteral(path, prop) ==
    [Expr("MemberExpression", "require", TRUE, path, TRUE, "Literal", prop)
        EXCEPT !.computed = TRUE]
\* require("path")[a + b], a computed access that is neither an identifier
\* nor a literal
RequireComputed(path) ==
    [Expr("MemberExpression", "require", TRUE, path, TRUE, "BinaryExpression", "")
        EXCEPT !.computed = TRUE]
\* require("path")[prop], a computed access through the variable prop
RequireComputedIdentifier(path, prop) ==
    [RequireProperty(path, prop) EXCEPT !.computed = TRUE]
\* require(name)
RequireDynamic == Expr("CallExpression", "require", FALSE, <<>>, FALSE, "none", "")
\* doSomething("bar") and doSomething("bar")[0]
OtherCall == Expr("CallExpression", "doSomething", TRUE, bar, FALSE, "none", "")
OtherCallMember ==
    Expr("MemberExpression", "doSomething", TRUE, bar, TRUE, "Literal", "0")
\* wrap(require("path")): the require call is an argument
WrappedRequire == Expr("CallExpression", "wrap", FALSE, <<>>, FALSE, "none", "")
\* anything else: a number, a function expression, an identifier
OtherExpr == Expr("Other", "", FALSE, <<>>, FALSE, "none", "")
\* (true, e)
Sequence(e) == [e EXCEPT !.wrapped = TRUE]

NoRequire == [found |-> FALSE, source |-> <<>>, symbol |-> ""]
RequireInfo(path, symbol) == [found |-> TRUE, source |-> path, symbol |-> symbol]

\* index.js 37-48: the required path; null is the empty path.
commonJSRequireSource(node) ==
    IF node.callee = "require" /\ node.literal THEN node.arg ELSE <<>>

\* index.js 64-91. Taking the last expression of a sequence leaves the node
\* this record describes; `wrapped` plays no further part.
parseRequireExpression(node) ==
    IF node.type = "CallExpression"
    THEN IF commonJSRequireSource(node) # <<>>
         THEN RequireInfo(commonJSRequireSource(node), "<CJS>")
         ELSE NoRequire
    ELSE IF node.type = "MemberExpression" /\ node.objectIsCall
    THEN IF commonJSRequireSource(node) = <<>> THEN NoRequire
         ELSE IF node.propType \in {"Identifier", "Literal"}
         THEN RequireInfo(commonJSRequireSource(node), node.prop)
         ELSE NoRequire
    ELSE NoRequire

(***************************************************************************)
(* Statements.                                                             *)
(***************************************************************************)
NoLeft == [type |-> "none", name |-> <<>>, objectIsIdentifier |-> FALSE,
           object |-> "", propertyIsIdentifier |-> FALSE, property |-> ""]
NoRef == [name |-> <<>>, parent |-> "none", scope |-> "none",
          replaced |-> "", alias |-> <<>>]
NoAdd == [alias |-> <<>>, source |-> <<>>, symbol |-> "", value |-> <<>>,
          object |-> "", property |-> "", replaced |-> ""]

\* A top-level statement. top: it is a direct child of the program (FALSE:
\* its content sits in the body of a function declaration). generated: the
\* node was created by the plugin.
Statement(type) ==
    [type |-> type, top |-> TRUE, generated |-> FALSE, source |-> <<>>,
     specifiers |-> <<>>,
     declarations |-> <<>>, left |-> NoLeft, right |-> NoExpr,
     ref |-> NoRef, add |-> NoAdd]

Generated(stmt) == [stmt EXCEPT !.generated = TRUE]

InFunction(stmt) == [stmt EXCEPT !.top = FALSE]

\* import <specifiers> from "path"
Specifier(type, imported, local) ==
    [type |-> type, imported |-> imported, local |-> local]
ImportDefault(local) == Specifier("ImportDefaultSpecifier", "", local)
ImportNamespace(local) == Specifier("ImportNamespaceSpecifier", "", local)
ImportNamed(imported, local) == Specifier("ImportSpecifier", imported, local)

Import(specifiers, path) ==
    [Statement("ImportDeclaration") EXCEPT
        !.specifiers = specifiers, !.source = path]

\* var <id> = <init>; nested: the declarator sits in a function inside the
\* initialiser of an earlier declarator of the same declaration.
Identifier(name) == [type |-> "Identifier", name |-> name, properties |-> <<>>]
Property(key, isIdentifier, value) ==
    [key |-> key, isIdentifier |-> isIdentifier, value |-> value]
ObjectPattern(properties) ==
    [type |-> "ObjectPattern", name |-> <<>>, properties |-> properties]
Declarator(id, init) == [id |-> id, init |-> init, nested |-> FALSE]
Nested(declarator) == [declarator EXCEPT !.nested = TRUE]

Var(declarations) ==
    [Statement("VariableDeclaration") EXCEPT !.declarations = declarations]

\* <left> = <right>;
LeftIdentifier(name) == [NoLeft EXCEPT !.type = "Identifier", !.name = name]
\* object.property
LeftMember(object, property) ==
    [NoLeft EXCEPT !.type = "MemberExpression", !.objectIsIdentifier = TRUE,
                   !.object = object, !.propertyIsIdentifier = TRUE,
                   !.property = property]
\* object["property"]
LeftComputed(object, property) ==
    [LeftMember(object, property) EXCEPT !.propertyIsIdentifier = FALSE]
\* module.exports.property
LeftOfModuleExports(property) ==
    [LeftMember("module.exports", property) EXCEPT !.objectIsIdentifier = FALSE]

Assign(left, right) ==
    [Statement("ExpressionStatement") EXCEPT !.left = left, !.right = right]

\* A statement with one reference to `name`: name() with parent
\* "CallExpression", <name/> with "JSXOpeningElement", export { name } with
\* "ExportSpecifier". scope "function": the name is declared again in a
\* function around the reference.
Reference(name, parent, scope) ==
    [Statement("Reference") EXCEPT
        !.ref = [name |-> name, parent |-> parent, scope |-> scope,
                 replaced |-> "", alias |-> <<>>]]

\* index.js 96-108: $imports.$add(alias, source, symbol, value); object and
\* property are the two identifiers of the callee, replaced tells what the
\* value argument was replaced with ("": it is still the identifier).
createAddImportCall(alias, path, symbol, value) ==
    [Generated(Statement("AddImportCall")) EXCEPT
        !.add = [alias |-> alias, source |-> path, symbol |-> symbol,
                 value |-> value, object |-> "$imports", property |-> "$add",
                 replaced |-> ""]]

\* index.js 238-260 and 277-290: the statements Program.exit generates,
\*   import { ImportMap } from "babel-plugin-mockable-imports/lib/helpers";
\*   const $imports = new ImportMap();
\*   export { $imports };
\*   module.exports.$imports = $imports;
ImportMapName == <<"ImportMap">>
helperImport ==
    Generated(Import(<<ImportNamed("ImportMap", ImportMapName)>>, helperImportPath))
importsDecl ==
    Generated(Var(<<Declarator(Identifier(dollarImports), OtherExpr)>>))
exportImportsDecl ==
    Generated(Reference(dollarImports, "ExportSpecifier", "module"))
cjsExport == Generated(Assign(LeftOfModuleExports("$imports"), OtherExpr))

(***************************************************************************)
(* Bindings, and the map state.importIdentifiers.                          *)
(***************************************************************************)
\* The identifier node that introduces a binding: its name in the input, and
\* the scope that holds it ("module"; "nested" for a declarator in a function
\* inside an initialiser; "function" for a declaration local to a function
\* around a reference; "generated" for an identifier the plugin created,
\* which Babel's scope does not know).
Binding(name, scope) == [name |-> name, scope |-> scope]
NoBinding == Binding(<<>>, "none")

\* The name an identifier has now: binding.identifier.name / ident.name after
\* the renames of the other plugin (render becomes _render).
CurrentName(binding) ==
    IF binding.scope = "module" /\ binding.name \in renamed
    THEN Underscored(binding.name)
    ELSE binding.name

\* Map.prototype.set, has, get and size.
MapSet(map, key, value) ==
    [k \in (DOMAIN map) \cup {key} |-> IF k = key THEN value ELSE map[k]]
MapHas(map, key) == key \in DOMAIN map
MapGet(map, key) == map[key]
MapSize(map) == Cardinality(DOMAIN map)

\* The names a module binds at its top level: the locals of its import
\* specifiers and the identifiers of its top-level declarators.
SpecifierNames(stmt) ==
    {stmt.specifiers[i].local : i \in DOMAIN stmt.specifiers}
DeclaratorNames(d) ==
    IF d.id.type = "Identifier" THEN {d.id.name}
    ELSE {d.id.properties[i].value : i \in DOMAIN d.id.properties}
DeclaredBy(stmt) ==
    IF ~stmt.top \/ stmt.generated THEN {}
    ELSE IF stmt.type = "ImportDeclaration" THEN SpecifierNames(stmt)
    ELSE IF stmt.type = "VariableDeclaration"
    THEN UNION {DeclaratorNames(stmt.declarations[i]) :
                    i \in {j \in DOMAIN stmt.declarations :
                              ~stmt.declarations[j].nested}}
    ELSE {}
Declared(module) == UNION {DeclaredBy(module[i]) : i \in DOMAIN module}

\* scope.getBinding(name, /* noGlobal */ true) at the top level of the module.
getBinding(name) ==
    IF name \in Declared(program) THEN Binding(name, "module") ELSE NoBinding

\* scope.getBinding for the identifier of a reference.
bindingOfReference(ref) ==
    IF ref.scope = "function" THEN Binding(ref.name, "function")
    ELSE getBinding(ref.name)

(***************************************************************************)
(* The visitors, as functions of the statement they visit. Each returns    *)
(* what it leaves behind: the map, the abort flag, the export flag, the     *)
(* statement itself, and the statements now following it (every            *)
(* path.insertAfter puts its statement directly after the visited one, in  *)
(* front of those inserted before).                                        *)
(***************************************************************************)
Visit(stmt) ==
    [map |-> importIdentifiers, aborted |-> aborted,
     hasCommonJSExportAssignment |-> hasCommonJSExportAssignment,
     stmt |-> stmt, inserted |-> <<>>]

\* state.importIdentifiers.set(value, alias); path.insertAfter(createAddImportCall(...))
register(st, value, alias, path, symbol) ==
    [st EXCEPT !.map = MapSet(@, value, alias),
               !.inserted = <<createAddImportCall(alias, path, symbol, value)>> \o @]

\* index.js 386-402.
importedOf(spec) ==
    IF spec.type = "ImportDefaultSpecifier" THEN "default"
    ELSE IF spec.type = "ImportNamespaceSpecifier" THEN "*"
    ELSE spec.imported

specifierBinding(stmt, spec) ==
    Binding(spec.local, IF stmt.generated THEN "generated" ELSE "module")

\* index.js 378-414: the callback of path.node.specifiers.forEach.
visitSpecifier(st, stmt, spec) ==
    LET local == specifierBinding(stmt, spec)
    IN IF CurrentName(local) = dollarImports
       THEN [st EXCEPT !.aborted = TRUE]
       ELSE IF excludeImportsFrom(stmt.source, opts.excludeImportsFromModules)
       THEN st
       ELSE register(st, local, CurrentName(local), stmt.source, importedOf(spec))

RECURSIVE visitSpecifiers(_, _, _)
visitSpecifiers(st, stmt, i) ==
    IF i > Len(stmt.specifiers) THEN st
    ELSE visitSpecifiers(visitSpecifier(st, stmt, stmt.specifiers[i]), stmt, i + 1)

\* index.js 372-415.
visitImportDeclaration(stmt) ==
    IF aborted THEN Visit(stmt) ELSE visitSpecifiers(Visit(stmt), stmt, 1)

\* An entry of the `imports` array of collectCommonJSImports.
ImportEntry(alias, symbol, path, value) ==
    [alias |-> alias, symbol |-> symbol, source |-> path, value |-> value]

\* index.js 185-199: the entries of an object pattern's properties.
RECURSIVE patternImports(_, _, _, _)
patternImports(properties, i, path, scope) ==
    IF i > Len(properties) THEN <<>>
    ELSE LET property == properties[i]
             value == Binding(property.value, scope)
             rest == patternImports(properties, i + 1, path, scope)
         IN IF ~property.isIdentifier THEN rest
            ELSE <<ImportEntry(CurrentName(value), property.key, path, value)>> \o rest

\* index.js 157-201: collectCommonJSImports.VariableDeclarator.
collectDeclarator(d) ==
    LET requireInfo == parseRequireExpression(d.init)
        scope == IF d.nested THEN "nested" ELSE "module"
        id == Binding(d.id.name, scope)
    IN IF ~requireInfo.found THEN <<>>
       ELSE IF excludeImportsFrom(requireInfo.source, opts.excludeImportsFromModules)
       THEN <<>>
       ELSE IF d.id.type = "Identifier"
       THEN IF startsWith(CurrentName(id), "_") THEN <<>>
            ELSE <<ImportEntry(CurrentName(id), requireInfo.symbol,
                               requireInfo.source, id)>>
       ELSE patternImports(d.id.properties, 1, requireInfo.source, scope)

\* index.js 359-362: path.traverse(collectCommonJSImports, ...) reaches every
\* declarator inside the declaration, in source order.
RECURSIVE collectCommonJSImports(_, _)
collectCommonJSImports(declarations, i) ==
    IF i > Len(declarations) THEN <<>>
    ELSE collectDeclarator(declarations[i]) \o
         collectCommonJSImports(declarations, i + 1)

\* index.js 365-368: imports.forEach(...).
RECURSIVE registerImports(_, _, _)
registerImports(st, imports, i) ==
    IF i > Len(imports) THEN st
    ELSE registerImports(
            register(st, imports[i].value, imports[i].alias, imports[i].source,
                     imports[i].symbol),
            imports, i + 1)

\* index.js 346-369.
visitVariableDeclaration(stmt) ==
    IF aborted THEN Visit(stmt)
    ELSE IF ~stmt.top THEN Visit(stmt)
    ELSE registerImports(Visit(stmt),
                         collectCommonJSImports(stmt.declarations, 1), 1)

\* index.js 141-152.
isCommonJSExportAssignment(stmt) ==
    /\ stmt.left.type = "MemberExpression"
    /\ stmt.left.objectIsIdentifier /\ stmt.left.propertyIsIdentifier
    /\ stmt.left.object = "module" /\ stmt.left.property = "exports"

\* An AssignmentExpression visitor that records the identifier node of the
\* assignment's left-hand side instead of the binding's.
visitAssignmentExpressionLeftNode(stmt) ==
    IF aborted THEN Visit(stmt)
    ELSE IF ~stmt.top THEN Visit(stmt)
    ELSE LET st == [Visit(stmt) EXCEPT !.hasCommonJSExportAssignment =
                                          @ \/ isCommonJSExportAssignment(stmt)]
             requireInfo == parseRequireExpression(stmt.right)
             binding == getBinding(stmt.left.name)
         IN IF stmt.left.type # "Identifier" THEN st
            ELSE IF ~requireInfo.found THEN st
            ELSE IF binding = NoBinding THEN st
            ELSE register(st, Binding(stmt.left.name, "assignment"),
                          CurrentName(binding), requireInfo.source,
                          requireInfo.symbol)

\* index.js 297-343.
visitAssignmentExpression(stmt) ==
    IF aborted THEN Visit(stmt)
    ELSE IF ~stmt.top THEN Visit(stmt)
    ELSE LET st == [Visit(stmt) EXCEPT !.hasCommonJSExportAssignment =
                                          @ \/ isCommonJSExportAssignment(stmt)]
             requireInfo == parseRequireExpression(stmt.right)
             binding == getBinding(stmt.left.name)
         IN IF stmt.left.type # "Identifier" THEN st
            ELSE IF ~requireInfo.found THEN st
            ELSE IF binding = NoBinding THEN st
            ELSE register(st, binding, CurrentName(binding), requireInfo.source,
                          requireInfo.symbol)

\* A rewrite under the name the identifier has when the reference is visited.
aliasOfCurrentName(binding) == CurrentName(binding)

\* index.js 455: the alias a reference is rewritten with.
aliasOf(binding) == MapGet(importIdentifiers, binding)

JSXParents == {"JSXOpeningElement", "JSXClosingElement", "JSXMemberExpression"}

\* index.js 420-472, for the identifier of a reference statement.
visitReferencedIdentifier(stmt) ==
    LET binding == bindingOfReference(stmt.ref)
    IN IF aborted THEN Visit(stmt)
       ELSE IF binding = NoBinding \/ ~MapHas(importIdentifiers, binding)
       THEN Visit(stmt)
       ELSE IF stmt.ref.parent = "ExportSpecifier" THEN Visit(stmt)
       ELSE [Visit(stmt) EXCEPT
                !.stmt.ref.alias = aliasOf(binding),
                !.stmt.ref.replaced =
                    IF stmt.ref.parent \in JSXParents THEN "jsx" ELSE "member"]

\* index.js 432-441: the nearest call expression around the identifier is a
\* call of $imports.$add.
inAddImportCall(stmt) ==
    /\ stmt.type = "AddImportCall"
    /\ stmt.add.object = "$imports"
    /\ stmt.add.property = "$add"

\* index.js 420-472 without the test of 432-441.
visitAddImportCallValue(stmt) ==
    LET binding == getBinding(stmt.add.value.name)
    IN IF aborted THEN Visit(stmt)
       ELSE IF binding = NoBinding \/ ~MapHas(importIdentifiers, binding)
       THEN Visit(stmt)
       ELSE [Visit(stmt) EXCEPT !.stmt.add.replaced = "member"]

\* index.js 420-472, for the value argument of a generated $imports.$add
\* call, the one identifier of the call that is a reference to a binding of
\* the module.
visitAddImportCall(stmt) ==
    LET binding == getBinding(stmt.add.value.name)
    IN IF aborted THEN Visit(stmt)
       ELSE IF binding = NoBinding \/ ~MapHas(importIdentifiers, binding)
       THEN Visit(stmt)
       ELSE IF inAddImportCall(stmt) THEN Visit(stmt)
       ELSE [Visit(stmt) EXCEPT !.stmt.add.replaced = "member"]

(***************************************************************************)
(* Program.exit.                                                           *)
(***************************************************************************)
\* path.insertAfter for the statement at index i.
InsertAfter(stmts, i, stmt) ==
    SubSeq(stmts, 1, i) \o <<stmt>> \o SubSeq(stmts, i + 1, Len(stmts))

\* A Program.exit that emits its statements whenever the module has a
\* statement to put them after, registered bindings or not.
exitReturnsEarlyOnlyIfEmpty == aborted \/ body = <<>>

\* index.js 233.
exitReturnsEarly == aborted \/ MapSize(importIdentifiers) = 0

\* An anchor at the last import statement of the module (the first statement
\* when it has none).
helperAnchorLastImport(stmts) ==
    IF \E i \in DOMAIN stmts : stmts[i].type = "ImportDeclaration"
    THEN CHOOSE i \in DOMAIN stmts :
            /\ stmts[i].type = "ImportDeclaration"
            /\ \A j \in DOMAIN stmts :
                  j > i => stmts[j].type # "ImportDeclaration"
    ELSE 1

\* index.js 265: body[0].
helperAnchor(stmts) == 1

\* index.js 272 and 291: body[body.length - 1], at the index it has once the
\* two statements of 265-266 are in.
trailerAnchor(stmts) == IF Len(stmts) = 1 THEN 1 ELSE Len(stmts) + 2

\* index.js 262-292: the body after the insertions.
withHelper(stmts) ==
    InsertAfter(InsertAfter(stmts, helperAnchor(stmts), helperImport),
                helperAnchor(stmts) + 1, importsDecl)
withExport(stmts) ==
    InsertAfter(withHelper(stmts), trailerAnchor(stmts), exportImportsDecl)
\* A Program.exit that puts cjsExport at the very end of the module.
withCJSExportLast(stmts) ==
    IF hasCommonJSExportAssignment
    THEN Append(withExport(stmts), cjsExport)
    ELSE withExport(stmts)

withCJSExport(stmts) ==
    IF hasCommonJSExportAssignment
    THEN InsertAfter(withExport(stmts), trailerAnchor(stmts), cjsExport)
    ELSE withExport(stmts)

\* The index of a generated statement in a body that holds it once.
IndexOf(stmts, stmt) == CHOOSE i \in DOMAIN stmts : stmts[i] = stmt

\* The statements Program.exit inserted, in the order of their insertion:
\* Babel queues each for a visit.
insertedAtExit ==
    <<helperImport, importsDecl, exportImportsDecl>> \o
    (IF hasCommonJSExportAssignment THEN <<cjsExport>> ELSE <<>>)

(***************************************************************************)
(* The modules and options the rewriter is run on.                         *)
(***************************************************************************)
\* import foo from "./foo"; import { bar } from "./foo"; import * as bar ...
ImportStatements ==
    { Import(<<ImportDefault(foo)>>, aModule),
      Import(<<ImportNamed("bar", bar)>>, aModule),
      Import(<<ImportNamespace(bar)>>, aModule),
      Import(<<ImportNamed("foo", foo), ImportNamed("bar", bar)>>, aModule),
      Import(<<>>, aModule),
      Import(<<ImportDefault(foo)>>, proxyquire),
      Import(<<ImportDefault(foo)>>, rollupHelpers),
      Import(<<ImportDefault(foo)>>, helperImportPath),
      Import(<<ImportDefault(foo)>>, excludeMe),
      Import(<<ImportDefault(underscoreFoo)>>, aModule),
      Import(<<ImportDefault(dollarImports)>>, aModule),
      Import(<<ImportDefault(dollarImports), ImportNamed("bar", bar)>>, aModule) }

\* var foo = require("./foo"); var { bar } = require("./foo"); var foo; ...
VariableStatements ==
    { Var(<<Declarator(Identifier(foo), Require(aModule))>>),
      Var(<<Declarator(Identifier(foo), RequireProperty(aModule, "bar"))>>),
      Var(<<Declarator(Identifier(foo), Sequence(Require(aModule)))>>),
      Var(<<Declarator(Identifier(foo), RequireLiteral(aModule, "bar"))>>),
      Var(<<Declarator(Identifier(foo), RequireComputed(aModule))>>),
      Var(<<Declarator(Identifier(foo), RequireComputedIdentifier(aModule, "bar"))>>),
      Var(<<Declarator(Identifier(foo), RequireDynamic)>>),
      Var(<<Declarator(Identifier(foo), WrappedRequire)>>),
      Var(<<Declarator(ObjectPattern(<<Property("bar", TRUE, bar)>>),
                       Require(aModule))>>),
      Var(<<Declarator(Identifier(foo), NoExpr)>>),
      Var(<<Declarator(Identifier(foo), OtherExpr)>>),
      Var(<<Declarator(Identifier(foo), OtherCall)>>),
      InFunction(Var(<<Declarator(Identifier(foo), Require(aModule))>>)),
      Var(<<Declarator(Identifier(underscoreFoo), Require(aModule))>>),
      Var(<<Declarator(ObjectPattern(<<Property("foo", TRUE, underscoreFoo)>>),
                       Require(aModule))>>),
      Var(<<Declarator(Identifier(underscoreFoo), NoExpr)>>),
      Var(<<Declarator(Identifier(foo), Require(proxyquire))>>),
      Var(<<Declarator(ObjectPattern(<<Property("bar", TRUE, bar)>>),
                       Require(proxyquire))>>),
      Var(<<Declarator(Identifier(dollarImports), Require(aModule))>>),
      Var(<<Declarator(Identifier(bar), OtherExpr),
            Nested(Declarator(Identifier(foo), Require(aModule)))>>) }

\* foo = require("./foo"); module.exports = <expression>; ...
AssignmentStatements ==
    { Assign(LeftIdentifier(foo), Require(aModule)),
      Assign(LeftIdentifier(foo), Require(proxyquire)),
      Assign(LeftIdentifier(underscoreFoo), Require(aModule)),
      Assign(LeftIdentifier(foo), OtherExpr),
      InFunction(Assign(LeftIdentifier(foo), Require(aModule))),
      Assign(LeftMember("module", "exports"), OtherExpr),
      Assign(LeftComputed("module", "exports"), OtherExpr),
      Assign(LeftMember("exports", "foo"), OtherExpr),
      InFunction(Assign(LeftMember("module", "exports"), OtherExpr)) }

\* foo(); <foo/>; export { foo }; function f(foo) { foo(); } ...
ReferenceStatements ==
    { Reference(foo, "CallExpression", "module"),
      Reference(foo, "JSXOpeningElement", "module"),
      Reference(foo, "ExportSpecifier", "module"),
      Reference(foo, "CallExpression", "function"),
      Reference(bar, "CallExpression", "module"),
      Reference(underscoreFoo, "CallExpression", "module") }

Statements ==
    ImportStatements \cup VariableStatements \cup AssignmentStatements
        \cup ReferenceStatements

\* The statements the longest modules are made of.
CoreStatements ==
    { Import(<<ImportDefault(foo)>>, aModule),
      Import(<<ImportNamed("bar", bar)>>, aModule),
      Import(<<ImportDefault(dollarImports)>>, aModule),
      Var(<<Declarator(Identifier(foo), Require(aModule))>>),
      Var(<<Declarator(Identifier(foo), NoExpr)>>),
      Var(<<Declarator(Identifier(underscoreFoo), NoExpr)>>),
      Assign(LeftIdentifier(foo), Require(aModule)),
      Assign(LeftIdentifier(foo), Require(proxyquire)),
      Assign(LeftIdentifier(underscoreFoo), Require(aModule)),
      Assign(LeftMember("module", "exports"), OtherExpr),
      Reference(foo, "CallExpression", "module"),
      Reference(foo, "ExportSpecifier", "module"),
      Reference(underscoreFoo, "CallExpression", "module") }

\* A module declares each of its top-level names once.
DeclaresOnce(module) ==
    \A i, j \in DOMAIN module :
        i < j => DeclaredBy(module[i]) \cap DeclaredBy(module[j]) = {}

SequencesOf(S, n) == [1..n -> S]

Modules ==
    { module \in UNION { SequencesOf(Statements, n) : n \in 0..(MaxStatements - 1) }
                   \cup SequencesOf(CoreStatements, MaxStatements) :
        DeclaresOnce(module) }

\* state.file.opts.filename, as the segments of the path.
Filenames ==
    { Undefined,
      Given(<<"index.js">>),
      Given(<<"test">>),
      Given(<<"", "index.js">>),
      Given(<<"", "project", "index.js">>),
      Given(<<"", "project", "test", "index.js">>),
      Given(<<"__tests__", "project", "index.js">>),
      Given(<<"", "project", "prueba", "test.js">>) }

\* state.opts.excludeDirs.
ExcludeDirsOptions == { Undefined, Given(<<>>), Given(<<"prueba">>) }

\* state.opts.excludeImportsFromModules.
ExcludeImportsOptions ==
    { Undefined,
      Given(<<>>),
      Given(<<StringPattern(aModule)>>),
      Given(<<RegExpPattern("prefix", "exclude")>>) }

Options(filename, excludeDirs, excludeImportsFromModules) ==
    [filename |-> filename, excludeDirs |-> excludeDirs,
     excludeImportsFromModules |-> excludeImportsFromModules]

DefaultOptions == Options(Undefined, Undefined, Undefined)

AllOptions ==
    { Options(f, d, e) : f \in Filenames, d \in ExcludeDirsOptions,
                         e \in ExcludeImportsOptions }

\* import foo from <a module of the default exclude list>; foo();
DefaultExcludedModules ==
    { <<Import(<<ImportDefault(foo)>>, path),
        Reference(foo, "CallExpression", "module")>> :
        path \in {helperImportPath, proxyquire, rollupHelpers} }

\* Every module is run with the default options; the modules of one
\* statement, and those that import from a module of the default exclude
\* list and use the import, are run with every combination of options as
\* well.
Runs ==
    { <<module, DefaultOptions>> : module \in Modules } \cup
    { <<module, o>> : module \in { m \in Modules : Len(m) = 1 }
                                     \cup DefaultExcludedModules,
                      o \in AllOptions }

(***************************************************************************)
(* One run of the rewriter.                                                *)
(***************************************************************************)
\* No registry runs while the rewriter does.
NoRegistry ==
    /\ meta = <<>>
    /\ props = (MetaAlias :> MapRef)
    /\ call = Idle

RewriterInit ==
    /\ NoRegistry
    /\ \E run \in Runs : program = run[1] /\ opts = run[2]
    /\ body = program
    /\ queue = <<>>
    /\ phase = "start"
    /\ aborted = FALSE
    /\ importIdentifiers = <<>>
    /\ hasCommonJSExportAssignment = FALSE
    /\ renamed = {}

\* index.js 209-227: Program.enter; Babel then queues the statements.
ProgramEnter ==
    /\ phase = "start"
    /\ importIdentifiers' = <<>>
    /\ aborted' = excludeModule(opts)
    /\ hasCommonJSExportAssignment' = FALSE
    /\ queue' = [i \in 1..Len(body) |-> i]
    /\ phase' = "visit"
    /\ UNCHANGED <<vars, program, opts, body, renamed>>

\* The next statement Babel visits is of the given type.
Visiting(type) ==
    /\ phase \in {"visit", "exited"}
    /\ queue # <<>>
    /\ body[Head(queue)].type = type

\* The visit of the statement at the head of the queue leaves `st` behind:
\* the inserted statements are queued in front of the others.
Leave(st) ==
    LET h == Head(queue)
        k == Len(st.inserted)
    IN /\ body' = SubSeq(body, 1, h - 1) \o <<st.stmt>> \o st.inserted
                    \o SubSeq(body, h + 1, Len(body))
       /\ queue' = [i \in 1..k |-> h + i] \o
                   [i \in 1..(Len(queue) - 1) |->
                       IF queue[i + 1] > h THEN queue[i + 1] + k
                       ELSE queue[i + 1]]
       /\ importIdentifiers' = st.map
       /\ aborted' = st.aborted
       /\ hasCommonJSExportAssignment' = st.hasCommonJSExportAssignment
       /\ UNCHANGED <<vars, program, opts, phase, renamed>>

ImportDeclaration ==
    /\ Visiting("ImportDeclaration")
    /\ Leave(visitImportDeclaration(body[Head(queue)]))

VariableDeclaration ==
    /\ Visiting("VariableDeclaration")
    /\ Leave(visitVariableDeclaration(body[Head(queue)]))

AssignmentExpression ==
    /\ Visiting("ExpressionStatement")
    /\ Leave(visitAssignmentExpression(body[Head(queue)]))

ReferencedIdentifier ==
    /\ Visiting("Reference")
    /\ Leave(visitReferencedIdentifier(body[Head(queue)]))

AddImportCall ==
    /\ Visiting("AddImportCall")
    /\ Leave(visitAddImportCall(body[Head(queue)]))

\* index.js 232-293: Program.exit, once every statement has been visited.
ProgramExit ==
    /\ phase = "visit"
    /\ queue = <<>>
    /\ phase' = "exited"
    /\ IF exitReturnsEarly
       THEN UNCHANGED <<body, queue>>
       ELSE /\ body' = withCJSExport(body)
            /\ queue' = [i \in DOMAIN insertedAtExit |->
                            IndexOf(body', insertedAtExit[i])]
    /\ UNCHANGED <<vars, program, opts, aborted, importIdentifiers,
                   hasCommonJSExportAssignment, renamed>>

\* Another plugin of the same pass renames a top-level binding of the module
\* (scope.rename: render becomes _render) while the traversal runs.
Rename ==
    /\ phase = "visit" \/ (phase = "exited" /\ queue # <<>>)
    /\ Cardinality(renamed) < MaxRenames
    /\ \E name \in Declared(program) \ renamed :
          renamed' = renamed \cup {name}
    /\ UNCHANGED <<vars, program, opts, body, queue, phase, aborted,
                   importIdentifiers, hasCommonJSExportAssignment>>

RewriterNext ==
    \/ ProgramEnter
    \/ ImportDeclaration
    \/ VariableDeclaration
    \/ AssignmentExpression
    \/ ReferencedIdentifier
    \/ AddImportCall
    \/ ProgramExit
    \/ Rename

Rewriter == RewriterInit /\ [][RewriterNext]_<<vars, rewriter>>

\* The traversal is over: Program.exit has run and nothing is queued.
Done == phase = "exited" /\ queue = <<>>

(***************************************************************************)
(* Properties of the rewriter, stated for the specification Rewriter.      *)
(***************************************************************************)
\* The output program equals the input program: no statement was inserted
\* and no reference was replaced.
OutputEqualsInput == body = program

\* The rewriter has registered no binding.
RegistersNothing == MapSize(importIdentifiers) = 0

IsImportWithSpecifiers(stmt) ==
    stmt.type = "ImportDeclaration" /\ ~stmt.generated /\ stmt.specifiers # <<>>

IsReference(stmt) == stmt.type = "Reference"

\* C11: a module in which the rewriter registers no binding comes out as it
\* went in: as long as the map of registered bindings is empty, and so at
\* the end of such a run, the output program equals the input program (no
\* reference replaced, no helper import, construction or export added).
C11_NoBindingNoChange == RegistersNothing => OutputEqualsInput

\* C11 happens: a run that was not aborted ends with nothing registered for a
\* module that imports a name (from an excluded source) and refers to it.
C11_Witness ==
    /\ Done /\ ~aborted /\ RegistersNothing /\ OutputEqualsInput
    /\ \E i, j \in DOMAIN program :
          IsImportWithSpecifiers(program[i]) /\ IsReference(program[j])

\* A run with the default options that no abort and no rename interfered
\* with has ended.
PlainRunDone == Done /\ ~aborted /\ renamed = {} /\ opts = DefaultOptions

\* The $imports.$add calls of the output that register `alias` for the
\* symbol `symbol` of the module `path`.
RegistrationsOf(alias, path, symbol) ==
    {j \in DOMAIN body :
        /\ body[j].type = "AddImportCall"
        /\ body[j].add.alias = alias
        /\ body[j].add.source = path
        /\ body[j].add.symbol = symbol}

\* The references of the output that resolve to the top-level binding `name`.
ReferencesTo(name) ==
    {j \in DOMAIN body :
        /\ IsReference(body[j])
        /\ body[j].ref.name = name
        /\ body[j].ref.scope = "module"}

\* The reference reads $imports.<alias> (or <$imports.alias/>).
ReplacedBy(stmt, alias) == stmt.ref.replaced # "" /\ stmt.ref.alias = alias

\* C12: for every import specifier of a non-excluded import statement there
\* is exactly one registration call with the local alias, the statement's
\* path and the specifier's symbol, and every reference that resolves to the
\* specifier reads $imports.<alias>, except those in `export { name }`,
\* which stay as they are.
C12_ImportsRewritten ==
    PlainRunDone =>
        \A i \in DOMAIN program :
            (IsImportWithSpecifiers(program[i])
                /\ ~excludeImportsFrom(program[i].source,
                                       opts.excludeImportsFromModules)) =>
                \A k \in DOMAIN program[i].specifiers :
                    LET spec == program[i].specifiers[k]
                    IN /\ Cardinality(RegistrationsOf(spec.local, program[i].source,
                                                      importedOf(spec))) = 1
                       /\ \A j \in ReferencesTo(spec.local) :
                             IF body[j].ref.parent = "ExportSpecifier"
                             THEN body[j].ref.replaced = ""
                             ELSE ReplacedBy(body[j], spec.local)

\* C13: a module that declares a top-level binding named $imports is not
\* rewritten at all: wherever the declaration stands among the other
\* statements, the output program equals the input program.
C13_DollarImportsDisables ==
    (Done /\ renamed = {} /\ opts = DefaultOptions
          /\ dollarImports \in Declared(program)) => OutputEqualsInput

\* The binding `name` was registered: it is a key of the map, or an emitted
\* $imports.$add call carries it as its value.
Registered(binding) ==
    \/ MapHas(importIdentifiers, binding)
    \/ \E j \in DOMAIN body :
          body[j].type = "AddImportCall" /\ body[j].add.value = binding

\* C14: a binding whose local alias starts with an underscore is never
\* registered, and no reference to it is rewritten, whichever construct
\* introduces it (a require declarator, a destructured property, an
\* assignment-form require or an import specifier).
C14_UnderscoreNeverRegistered ==
    (renamed = {} /\ opts = DefaultOptions) =>
        \A name \in Declared(program) :
            startsWith(name, "_") =>
                /\ ~Registered(Binding(name, "module"))
                /\ \A j \in ReferencesTo(name) : body[j].ref.replaced = ""

\* The segments of the directory part of a file name: all but the file's own.
DirectorySegments(filename) ==
    {filename[i] : i \in 1..(Len(filename) - 1)}

\* The excludeDirs list in effect: the option, or by default {test, __tests__}.
EffectiveExcludeDirs ==
    IF opts.excludeDirs.given THEN Range(opts.excludeDirs.value)
    ELSE {"test", "__tests__"}

\* The file name is known and one of its directory segments is excluded.
InExcludedDir ==
    /\ opts.filename.given
    /\ DirectorySegments(opts.filename.value) \cap EffectiveExcludeDirs # {}

\* An import statement the rewriter registers when it processes the module.
IsMockableImport(stmt) ==
    /\ IsImportWithSpecifiers(stmt)
    /\ ~excludeImportsFrom(stmt.source, opts.excludeImportsFromModules)
    /\ \A k \in DOMAIN stmt.specifiers : stmt.specifiers[k].local # dollarImports

\* C15: a module is passed through unprocessed exactly when a directory
\* segment of its file name is in the excludeDirs list in effect ({test,
\* __tests__} by default): then the output equals the input; otherwise, and
\* always when the file name is unknown, the module is in scope: processing
\* stops only at a $imports declaration of its own, and what is registered
\* shows in the output.
C15_ExcludedDirs ==
    phase \in {"visit", "exited"} =>
        /\ InExcludedDir => (aborted /\ OutputEqualsInput)
        /\ ~InExcludedDir =>
              /\ aborted => dollarImports \in Declared(program)
              /\ (Done /\ ~aborted /\ ~RegistersNothing) => ~OutputEqualsInput

\* C15 happens: a module with a mockable import, in a file under an excluded
\* directory, reaches the end of its run unchanged.
C15_Witness ==
    /\ Done /\ InExcludedDir /\ aborted /\ OutputEqualsInput
    /\ \E i \in DOMAIN program : IsMockableImport(program[i])

\* The path is on the exclude list in effect (the option, or the default
\* list): equal to one of its strings or matched by one of its patterns.
ExcludedPath(path) == excludeImportsFrom(path, opts.excludeImportsFromModules)

\* C16: a binding imported from a path on the exclude list in effect is never
\* registered, whatever its form (import specifier, require declaration,
\* destructured require, assignment-form require): no emitted $imports.$add
\* call names an excluded path, and every rewritten reference belongs to a
\* binding registered from a path that is not excluded.
C16_ExcludedNeverRegistered ==
    /\ \A j \in DOMAIN body :
          body[j].type = "AddImportCall" => ~ExcludedPath(body[j].add.source)
    /\ \A j \in DOMAIN body :
          (IsReference(body[j]) /\ body[j].ref.replaced # "") =>
              \E k \in DOMAIN body :
                  /\ body[k].type = "AddImportCall"
                  /\ body[k].add.value = bindingOfReference(body[j].ref)
                  /\ ~ExcludedPath(body[k].add.source)

\* C17: whenever the rewriter has registered at least one binding, the last
\* top-level statement of the output module is `export { $imports }`.
C17_ExportLast ==
    (Done /\ ~RegistersNothing) =>
        (body # <<>> /\ body[Len(body)] = exportImportsDecl)

\* The module has a `module.exports = <expression>` assignment at its top
\* level.
TopLevelModuleExports ==
    \E i \in DOMAIN program :
        /\ program[i].type = "ExpressionStatement"
        /\ program[i].top
        /\ isCommonJSExportAssignment(program[i])

\* The output holds the generated statement.
Emitted(stmt) == \E j \in DOMAIN body : body[j] = stmt

\* C18 as stated: in a module with a registered binding and a top-level
\* `module.exports =` assignment, `module.exports.$imports = $imports;` is
\* the final statement of the output; without such an assignment it is not
\* emitted.
C18_Original ==
    (Done /\ ~aborted) =>
        /\ (~RegistersNothing /\ TopLevelModuleExports) =>
              body[Len(body)] = cjsExport
        /\ ~TopLevelModuleExports => ~Emitted(cjsExport)

\* C18: once Program.exit has run, `module.exports.$imports = $imports;` is
\* in the output exactly when `export { $imports }` is and the module has a
\* top-level `module.exports =` assignment; it then stands immediately before
\* `export { $imports }`, which stays the final statement.
C18_CJSExportBeforeExport ==
    phase = "exited" =>
        /\ Emitted(cjsExport) <=>
              (Emitted(exportImportsDecl) /\ TopLevelModuleExports)
        /\ Emitted(cjsExport) =>
              /\ Len(body) >= 2
              /\ body[Len(body) - 1] = cjsExport
              /\ body[Len(body)] = exportImportsDecl

\* C18 happens: a run ends with both statements emitted.
C18_Witness ==
    /\ Done /\ TopLevelModuleExports /\ ~RegistersNothing
    /\ Emitted(cjsExport)
    /\ body[Len(body)] = exportImportsDecl

IsOriginalImport(stmt) == stmt.type = "ImportDeclaration" /\ ~stmt.generated

\* The index, in the output, of the module's last original import statement.
LastImportIndex ==
    CHOOSE i \in DOMAIN body :
        /\ IsOriginalImport(body[i])
        /\ \A j \in DOMAIN body : j > i => ~IsOriginalImport(body[j])

RegisteredAliases ==
    {body[j].add.alias : j \in {k \in DOMAIN body : body[k].type = "AddImportCall"}}

\* C20: every rewritten reference carries the alias recorded when its
\* binding was registered, whatever name the identifier has by then: the
\* alias is the one the map holds for the binding, and it is the alias of an
\* emitted registration call of that binding.
C20_RegisteredAlias ==
    \A j \in DOMAIN body :
        (IsReference(body[j]) /\ body[j].ref.replaced # "") =>
            LET binding == bindingOfReference(body[j].ref)
            IN /\ body[j].ref.alias \in RegisteredAliases
               /\ \E k \in DOMAIN body :
                     /\ body[k].type = "AddImportCall"
                     /\ body[k].add.value = binding
                     /\ body[k].add.alias = body[j].ref.alias

\* C20 happens: a reference to a binding that was renamed after its
\* registration reads $imports.<registered alias>, not the new name.
C20_Witness ==
    \E j \in DOMAIN body :
        /\ IsReference(body[j]) /\ body[j].ref.replaced # ""
        /\ body[j].ref.name \in renamed
        /\ body[j].ref.alias = body[j].ref.name
        /\ body[j].ref.alias # CurrentName(bindingOfReference(body[j].ref))

\* C21: only the require declarators that belong directly to a top-level
\* variable declaration are registered: no binding of a declarator nested
\* deeper (in a function declaration, or in a function inside the initialiser
\* of a top-level declaration) is in the map or named by an emitted
\* $imports.$add call.
C21_OnlyTopLevelDeclarators ==
    /\ \A binding \in DOMAIN importIdentifiers : binding.scope # "nested"
    /\ \A j \in DOMAIN body :
          body[j].type = "AddImportCall" =>
              /\ body[j].add.value.scope # "nested"
              /\ body[j].add.value.scope = "module" =>
                    body[j].add.value.name \in Declared(program)

\* What the initialiser `e` imports by the rule of C22: require("<string>")
\* imports the whole module; the call followed by one property access
\* written with a plain identifier (.name) or with a literal (["name"])
\* imports that property; anything else imports nothing.
ClaimedRequire(e) ==
    IF e.callee = "require" /\ e.literal /\ e.arg # <<>>
    THEN IF e.type = "CallExpression"
         THEN RequireInfo(e.arg, "<CJS>")
         ELSE IF e.type = "MemberExpression" /\ e.objectIsCall
                 /\ \/ e.propType = "Identifier" /\ ~e.computed
                    \/ e.propType = "Literal"
         THEN RequireInfo(e.arg, e.prop)
         ELSE NoRequire
    ELSE NoRequire

\* The initialisers and assigned values of the module's statements.
InitialisersOf(stmt) ==
    {stmt.declarations[k].init : k \in DOMAIN stmt.declarations} \cup {stmt.right}

\* C22: an initialiser is recognised as an import only when it is
\* require("<string>"), or that call followed by one non-computed identifier
\* or literal property access, each possibly last in a comma sequence; every
\* other shape (a wrapped require, a computed access on the result) is
\* skipped, so no registration call is emitted for it.
C22_RecognisedShapes ==
    /\ \A i \in DOMAIN program : \A e \in InitialisersOf(program[i]) :
          parseRequireExpression(e) = ClaimedRequire(e)
    /\ \A j \in DOMAIN body :
          (body[j].type = "AddImportCall"
              /\ body[j].add.value.scope \in {"module", "nested"}) =>
              \E i \in DOMAIN program :
                  \/ /\ program[i].type = "ImportDeclaration"
                     /\ program[i].source = body[j].add.source
                  \/ \E e \in InitialisersOf(program[i]) :
                        /\ ClaimedRequire(e).found
                        /\ ClaimedRequire(e).source = body[j].add.source
                        /\ ClaimedRequire(e).symbol = body[j].add.symbol

\* The statement is a top-level assignment of a recognised require
\* expression to the identifier `name`.
IsRequireAssignment(stmt, name) ==
    /\ stmt.type = "ExpressionStatement" /\ stmt.top /\ ~stmt.generated
    /\ stmt.left.type = "Identifier" /\ stmt.left.name = name
    /\ parseRequireExpression(stmt.right).found

\* The statement is a $imports.$add call that registers the binding.
IsRegistrationOf(stmt, binding) ==
    stmt.type = "AddImportCall" /\ stmt.add.value = binding

\* The names a top-level assignment of the module assigns a require to.
AssignedNames ==
    {program[i].left.name :
        i \in {j \in DOMAIN program :
                  IsRequireAssignment(program[j], program[j].left.name)}}

\* A statement Program.exit put in for the registry itself: the helper
\* import, its own registration if it got one, and the construction.
IsHelperStatement(stmt) ==
    \/ stmt \in {helperImport, importsDecl}
    \/ stmt.type = "AddImportCall" /\ stmt.add.value.scope = "generated"

\* The index of the first statement after index a of the output that is not
\* a helper statement (0 when there is none).
NextAfter(a) ==
    IF \E k \in DOMAIN body : k > a /\ ~IsHelperStatement(body[k])
    THEN CHOOSE k \in DOMAIN body :
            /\ k > a /\ ~IsHelperStatement(body[k])
            /\ \A l \in DOMAIN body :
                  (l > a /\ ~IsHelperStatement(body[l])) => k <= l
    ELSE 0

\* The references to `name` that stand after index a of the output.
LaterReferences(name, a) == {j \in ReferencesTo(name) : j > a}

\* C23 as stated: after `x = require(...)` for a declared x, every later
\* reference to x reads $imports.x.
C23_Original ==
    (Done /\ ~aborted /\ renamed = {}) =>
        \A a \in DOMAIN body : \A x \in AssignedNames :
            (IsRequireAssignment(body[a], x) /\ x \in Declared(program)) =>
                \A j \in LaterReferences(x, a) : ReplacedBy(body[j], x)

\* C23: at the end of a run that was not aborted, a top-level assignment
\* `x = require(...)` to a declared x is followed by its registration call
\* (directly, or with only the helper statements in between), whose binding
\* is the identifier of x's declaration, and
\* every later reference that resolves to x reads $imports.<alias> under an
\* alias registered for x, except a reference in `export { x }`, which stays;
\* when x is not declared the assignment is followed by no registration.
C23_AssignmentForm ==
    (Done /\ ~aborted) =>
        \A a \in DOMAIN body : \A x \in AssignedNames :
            IsRequireAssignment(body[a], x) =>
                IF x \in Declared(program)
                THEN /\ NextAfter(a) # 0
                     /\ IsRegistrationOf(body[NextAfter(a)], Binding(x, "module"))
                     /\ body[NextAfter(a)].add.source =
                            parseRequireExpression(body[a].right).source
                     /\ body[NextAfter(a)].add.symbol =
                            parseRequireExpression(body[a].right).symbol
                     /\ MapHas(importIdentifiers, Binding(x, "module"))
                     /\ \A j \in LaterReferences(x, a) :
                           IF body[j].ref.parent = "ExportSpecifier"
                           THEN body[j].ref.replaced = ""
                           ELSE \E k \in DOMAIN body :
                                   /\ k < j
                                   /\ IsRegistrationOf(body[k], Binding(x, "module"))
                                   /\ ReplacedBy(body[j], body[k].add.alias)
                ELSE /\ ~Registered(Binding(x, "module"))
                     /\ \A j \in LaterReferences(x, a) : body[j].ref.replaced = ""

\* C23 happens: `var foo; foo = require(...); foo();` ends with the
\* registration after the assignment and the call reading $imports.foo.
C23_Witness ==
    /\ Done /\ ~aborted
    /\ \E a \in DOMAIN body :
          /\ IsRequireAssignment(body[a], foo)
          /\ NextAfter(a) = a + 1
          /\ IsRegistrationOf(body[a + 1], Binding(foo, "module"))
          /\ \E d \in DOMAIN body :
                d < a /\ body[d].type = "VariableDeclaration"
          /\ \E j \in LaterReferences(foo, a) : ReplacedBy(body[j], foo)

\* The position of the specifier named $imports in an import declaration
\* (0 when it has none): index.js 379.
RECURSIVE abortingSpecifier(_, _)
abortingSpecifier(stmt, k) ==
    IF k > Len(stmt.specifiers) THEN 0
    ELSE IF stmt.specifiers[k].local = dollarImports THEN k
    ELSE abortingSpecifier(stmt, k + 1)

\* The specifiers the forEach of index.js 378 still hands to its callback
\* after the one that set state.aborted.
SpecifiersAfterAbort(stmt) ==
    IF abortingSpecifier(stmt, 1) = 0 THEN {}
    ELSE {k \in DOMAIN stmt.specifiers : k > abortingSpecifier(stmt, 1)}

\* A registration call for a specifier of the import declaration at index j
\* stands behind it.
RegisteredBehind(j, spec) ==
    \E a \in DOMAIN body :
        /\ a > j
        /\ body[a].type = "AddImportCall"
        /\ body[a].add.value = specifierBinding(body[j], spec)
        /\ body[a].add.source = body[j].source
        /\ body[a].add.symbol = importedOf(spec)

\* No step taken in an aborted run changes the program or the map.
AbortedStepsChangeNothing ==
    aborted => (body' = body /\ importIdentifiers' = importIdentifiers)

\* Nothing was registered for a specifier handled after the abort.
NothingRegisteredAfterAbort ==
    aborted =>
        \A j \in DOMAIN body :
            IsImportWithSpecifiers(body[j]) =>
                \A k \in SpecifiersAfterAbort(body[j]) :
                    ~RegisteredBehind(j, body[j].specifiers[k])

\* C24: once processing of a module has been aborted (the module is
\* excluded, or an import specifier named $imports was met), no later step
\* of the pass changes the module: no further binding is registered, no
\* registration call is inserted, no reference is replaced, and Program.exit
\* emits nothing. Stated for the handlers that run after the abort (they
\* leave the program and the map as they are) and for the specifiers the
\* aborting handler itself still goes through (none of them is registered).
C24_AbortIsFinal ==
    /\ [][AbortedStepsChangeNothing]_<<vars, rewriter>>
    /\ [](NothingRegisteredAfterAbort)

\* A generated $imports.$add call whose value argument refers to a registered
\* binding of the module: the reference-rewriting step would replace such an
\* identifier anywhere else.
ValueIsRegisteredReference(stmt) ==
    /\ stmt.type = "AddImportCall"
    /\ stmt.generated
    /\ getBinding(stmt.add.value.name) # NoBinding
    /\ MapHas(importIdentifiers, getBinding(stmt.add.value.name))

\* C25: the value argument of every generated $imports.$add(alias, path,
\* symbol, value) call stays the plain local identifier of the binding: at
\* no point of the pass, the visit of the generated call included, is it
\* replaced with $imports.<alias>.
C25_ValueArgumentStays ==
    \A j \in DOMAIN body :
        body[j].type = "AddImportCall" => body[j].add.replaced = ""

\* The pass is over, not aborted, and it has visited a generated call whose
\* value argument refers to a registered binding.
C25_Witness ==
    /\ Done /\ ~aborted
    /\ \E j \in DOMAIN body : ValueIsRegisteredReference(body[j])

(***************************************************************************)
(* Properties of the registry, continued (specification Spec).             *)
(***************************************************************************)
\* The latest call was $mock (either form) or $restore.
MockOrRestoreCall == call.op \in {"mock", "mockfn", "restore"}

\* The own properties the latest call created.
CreatedProps == (DOMAIN props) \ (DOMAIN call.props)

C27_SurfaceIntact ==
    /\ \A method \in MethodAliases : Callable(props, method)
    /\ Reads(props, MetaAlias, MapRef)

\* The statement declares the binding: an import specifier or a declarator
\* of it (nested in an initialiser or not) carries the binding's name.
Introduces(stmt, binding) ==
    IF binding.scope = "generated"
    THEN stmt.generated /\ stmt.type = "ImportDeclaration"
         /\ binding.name \in SpecifierNames(stmt)
    ELSE /\ ~stmt.generated
         /\ \/ stmt.type = "ImportDeclaration" /\ binding.scope = "module"
               /\ binding.name \in SpecifierNames(stmt)
            \/ /\ stmt.type = "VariableDeclaration"
               /\ \E i \in DOMAIN stmt.declarations :
                     /\ stmt.declarations[i].nested = (binding.scope = "nested")
                     /\ binding.name \in DeclaratorNames(stmt.declarations[i])

\* The places of the generated calls, and of `const $imports = new ImportMap()`.
AddImportCalls == {a \in DOMAIN body : body[a].type = "AddImportCall"}
Constructions == {c \in DOMAIN body : body[c] = importsDecl}

\* The registry is constructed once, before every generated call.
ConstructedBeforeCalls ==
    /\ Cardinality(Constructions) = 1
    /\ \A c \in Constructions : \A a \in AddImportCalls : c < a

\* Every generated call stands behind the statement that introduces its
\* binding.
CallsBehindDeclarations ==
    \A a \in AddImportCalls :
        \E i \in DOMAIN body : i < a /\ Introduces(body[i], body[a].add.value)

\* C28: in every output module in which a binding was registered, the
\* construction of $imports comes earlier in the order of the top-level
\* statements than every generated $imports.$add call, and each $add call
\* comes after the statement that introduces the binding it registers,
\* whatever the order and mix of import statements, require declarations
\* and assignment-form requires in the input.
C28_ConstructionThenCalls ==
    (Done /\ ~RegistersNothing) =>
        (ConstructedBeforeCalls /\ CallsBehindDeclarations)

\* The latest call was $mock in object form and threw for a symbol key that
\* matches nothing; the path and the key it threw for, and their places in
\* the argument.
ThrewUnmatched == MockCall /\ call.err # NoError /\ call.err[1] = "Error"
FailingSymbol == call.err[2]
FailingPath == call.err[3]
FailingPathIndex ==
    CHOOSE i \in DOMAIN call.arg : call.arg[i][1] = FailingPath
FailingKeyIndex ==
    LET d == esImportsOf(call.arg[FailingPathIndex][2]).d
    IN CHOOSE j \in DOMAIN d : d[j][1] = FailingSymbol

\* The entry was assigned before the throw: it belongs to an earlier path
\* (as a whole-module alias or under one of its keys) or to an earlier key
\* of the failing path.
AssignedBeforeThrow(e) ==
    \/ \E i \in 1..(FailingPathIndex - 1) :
          /\ call.arg[i][1] = e.source
          /\ IsWholeModule(e.symbol) \/ e.symbol \in KeysOf(call.arg[i][2])
    \/ /\ e.source = FailingPath
       /\ \E j \in 1..(FailingKeyIndex - 1) :
             esImportsOf(call.arg[FailingPathIndex][2]).d[j][1] = e.symbol

\* What $mock assigns to the alias of an entry of path P: the value of its
\* own key if the description has one, else the description (as normalised
\* for a namespace alias, as given for a <CJS> alias).
AssignedValue(e) ==
    LET desc == DescriptionOf(call.arg, e.source)
    IN IF e.symbol \in KeysOf(desc) THEN ValueOfKey(desc, e.symbol)
       ELSE IF e.symbol = "*" THEN esImportsOf(desc)
       ELSE desc

\* C29: $mock is not atomic: it processes the paths of its argument and the
\* symbol keys of each description in order, and when it throws for a key
\* that matches nothing, every alias it assigned earlier in the same call
\* (aliases of earlier paths, and aliases of earlier keys of the failing
\* path) keeps the mock value, while every other alias, those of later keys
\* and paths included, reads what it read before the call.
C29_NotAtomic ==
    ThrewUnmatched =>
        \A e \in EntriesBefore :
            IF AssignedBeforeThrow(e)
            THEN Reads(props, e.alias, AssignedValue(e))
            ELSE SameProp(props, call.props, e.alias)

\* A $mock call threw after it had given an alias its mock value, and left
\* another alias alone.
C29_Witness ==
    /\ ThrewUnmatched
    /\ \E e \in EntriesBefore :
          /\ AssignedBeforeThrow(e)
          /\ ~Reads(call.props, e.alias, AssignedValue(e))
          /\ Reads(props, e.alias, AssignedValue(e))
    /\ \E e \in EntriesBefore : ~AssignedBeforeThrow(e)

\* The path is named by an entry of the list: a string equal to it, or a
\* regular expression that matches it.
NamedBy(list, path) ==
    \E i \in DOMAIN list :
        IF list[i].type = "string" THEN list[i].text = path
        ELSE regExpTest(list[i], path)

\* The user gave a list of modules, and it does not name the path.
UserListSpares(path) ==
    /\ opts.excludeImportsFromModules.given
    /\ ~NamedBy(opts.excludeImportsFromModules.value, path)

\* The path is on the built-in list of index.js 8-21.
DefaultExcluded(path) == NamedBy(EXCLUDE_LIST, path)

\* The user gave a list of directories, and a directory of the file is on
\* the built-in list of index.js 30 but not on the user's.
UserDirsSpareTestDir ==
    /\ opts.filename.given /\ opts.excludeDirs.given
    /\ DirectorySegments(opts.filename.value) \cap Range(EXCLUDED_DIRS) # {}
    /\ DirectorySegments(opts.filename.value)
           \cap Range(opts.excludeDirs.value) = {}

\* The import declaration at index j is registered (a call for each of its
\* specifiers stands behind it) and rewritten (every later reference to a
\* specifier, outside `export { name }`, reads $imports.<alias>).
RegisteredAndRewritten(j) ==
    \A k \in DOMAIN body[j].specifiers :
        LET spec == body[j].specifiers[k]
        IN /\ RegisteredBehind(j, spec)
           /\ \A r \in ReferencesTo(spec.local) :
                 (r > j /\ body[r].ref.parent # "ExportSpecifier") =>
                     ReplacedBy(body[r], MapGet(importIdentifiers,
                                               specifierBinding(body[j], spec)))

\* C30: a user-supplied excludeImportsFromModules or excludeDirs replaces
\* the built-in list instead of extending it: with a user list that does
\* not name them, the imports from the helper module, from proxyquire and
\* from null-byte specifiers are registered and rewritten like any other
\* import, and a module in a test or __tests__ directory is processed and
\* rewritten. Stated for the modules that declare no $imports.
C30_UserListReplacesDefault ==
    (Done /\ dollarImports \notin Declared(program)) =>
        /\ (opts.excludeDirs.given /\ ~InExcludedDir) => ~aborted
        /\ ~aborted =>
              \A j \in DOMAIN body :
                  (IsImportWithSpecifiers(body[j])
                      /\ UserListSpares(body[j].source)) =>
                          RegisteredAndRewritten(j)

\* A module of a test directory that imports from a module of the built-in
\* list and uses the import was run with user lists that name neither: the
\* import is registered and the reference replaced.
C30_Witness ==
    /\ Done /\ ~aborted
    /\ UserDirsSpareTestDir
    /\ \E j \in DOMAIN body :
          /\ IsImportWithSpecifiers(body[j])
          /\ DefaultExcluded(body[j].source)
          /\ UserListSpares(body[j].source)
          /\ \E r \in ReferencesTo(body[j].specifiers[1].local) :
                r > j /\ ReplacedBy(body[r], body[j].specifiers[1].local)

====
